---- MODULE Spec2Model ----
(***************************************************************************)
(* Shape- and data-level model of app/models.py (SE-ResNeXt construction   *)
(* and forward composition) and of app/preprocess.py (to_multi_hot,        *)
(* evaluate).                                                              *)
(*                                                                         *)
(* Tensors are modelled by their shape (b, c, h, w); scores are exact      *)
(* rationals <<numerator, denominator>> (floating-point rounding is not    *)
(* modelled).  A label list is modelled by the set of its elements:        *)
(* to_multi_hot only ever writes base[l] = 1, which is idempotent and      *)
(* order-independent.                                                      *)
(***************************************************************************)
EXTENDS Integers, Sequences, FiniteSets, TLC

VARIABLES
    torch_zero_init,  \* the installed torch on a zero-element weight: "noop"
                      \* (initialised as a no-op) or "raise" (division by zero)
    net,              \* the module object built by the last constructor call
    fwd,              \* the last forward call on net: input and outcome
    records,          \* the loaded annotation records (get_annotations)
    call              \* the last preprocess.py call: arguments and outcome

vars == <<torch_zero_init, net, fwd, records, call>>

(***************************************************************************)
(* Bounds of the model.                                                    *)
(***************************************************************************)
MaxSize == 2      \* largest label-space size
MaxAnnos == 2     \* longest annotation sequence
MaxWidth == 18    \* largest configured channel width
MaxDepth == 3     \* deepest block stack
MaxIn == 2        \* largest input channel count
MaxBatch == 2     \* largest batch size of a forward input
MaxSide == 2      \* largest height / width of a forward input

None == [kind |-> "None"]

(***************************************************************************)
(* Exact rational arithmetic, <<n, d>> with d > 0.                         *)
(***************************************************************************)
RECURSIVE GCD(_, _)
GCD(a, b) == IF b = 0 THEN a ELSE GCD(b, a % b)

Norm(q) ==
    IF q[1] = 0 THEN <<0, 1>>
    ELSE LET g == GCD(q[1], q[2]) IN <<q[1] \div g, q[2] \div g>>

FAdd(p, q) == <<p[1] * q[2] + q[1] * p[2], p[2] * q[2]>>
FMul(p, q) == <<p[1] * q[1], p[2] * q[2]>>
FDiv(p, q) == <<p[1] * q[2], p[2] * q[1]>>
FEq(p, q) == p[1] * q[2] = q[1] * p[2]
FLe(p, q) == p[1] * q[2] <= q[1] * p[2]

Min(a, b) == IF a <= b THEN a ELSE b

(***************************************************************************)
(* preprocess.py                                                           *)
(***************************************************************************)

\* np.zeros(size): a vector indexed 0 .. size-1.
Zeros(size) == [j \in 0 .. size - 1 |-> 0]

\* numpy's base[l] = 1: an index in [-size, 0) counts from the end, an index
\* outside [-size, size) raises IndexError.
SetItem(base, l, size) ==
    IF l >= 0 /\ l < size THEN [exc |-> "ok", v |-> [base EXCEPT ![l] = 1]]
    ELSE IF l < 0 /\ l >= -size
        THEN [exc |-> "ok", v |-> [base EXCEPT ![l + size] = 1]]
    ELSE [exc |-> "IndexError", v |-> base]

\* for l in ano["label_ids"]: base[l] = 1
RECURSIVE FillRow(_, _, _)
FillRow(base, ids, size) ==
    IF ids = {} THEN [exc |-> "ok", v |-> base]
    ELSE LET l == CHOOSE m \in ids : \A k \in ids : m <= k
             r == SetItem(base, l, size)
         IN  IF r.exc # "ok" THEN r ELSE FillRow(r.v, ids \ {l}, size)

\* Mutation of RowOf: base is allocated once, before the loop over the
\* annotations, so that each row keeps the labels of the rows before it.
RowOfSharedBase(rows, ano, size) ==
    FillRow(IF rows = <<>> THEN Zeros(size) ELSE rows[Len(rows)],
            ano.label_ids, size)

\* base = np.zeros(size); for l in ano["label_ids"]: base[l] = 1
RowOf(rows, ano, size) == FillRow(Zeros(size), ano.label_ids, size)

\* The loop over enumerate(annotations): rows[i] = base.  An IndexError in
\* any annotation aborts the call.
RECURSIVE MultiHotRows(_, _, _, _)
MultiHotRows(annotations, size, i, rows) ==
    IF i > Len(annotations) THEN [exc |-> "ok", rows |-> rows]
    ELSE LET r == RowOf(rows, annotations[i], size)
         IN  IF r.exc # "ok" THEN [exc |-> r.exc, rows |-> <<>>]
             ELSE MultiHotRows(annotations, size, i + 1, Append(rows, r.v))

to_multi_hot(annotations, size) == MultiHotRows(annotations, size, 1, <<>>)

\* The default of to_multi_hot's size parameter (3474 in the source), scaled
\* to the model's label space.
DefaultSize == MaxSize

Count(S) == Cardinality(S)

\* Mutation of fbeta_score: the arguments are taken in the other order.
fbeta_score_swapped(y_true, y_pred, beta) ==
    LET idx == DOMAIN y_true
        tp == Count({j \in idx : y_pred[j] = 1 /\ y_true[j] = 1})
        fp == Count({j \in idx : y_pred[j] = 0 /\ y_true[j] = 1})
        fn == Count({j \in idx : y_pred[j] = 1 /\ y_true[j] = 0})
        beta2 == beta * beta
        precision == IF tp + fp = 0 THEN <<0, 1>> ELSE <<tp, tp + fp>>
        recall == IF tp + fn = 0 THEN <<0, 1>> ELSE <<tp, tp + fn>>
        denom == FAdd(FMul(<<beta2, 1>>, precision), recall)
    IN  IF denom[1] = 0 THEN <<0, 1>>
        ELSE Norm(FDiv(FMul(<<1 + beta2, 1>>, FMul(precision, recall)), denom))

\* sklearn.metrics.fbeta_score(y_true, y_pred, beta) on binary vectors:
\* precision and recall (0 when undefined), then
\* (1 + beta^2) * P * R / (beta^2 * P + R), 0 when that denominator is 0.
fbeta_score(y_true, y_pred, beta) ==
    LET idx == DOMAIN y_true
        tp == Count({j \in idx : y_true[j] = 1 /\ y_pred[j] = 1})
        fp == Count({j \in idx : y_true[j] = 0 /\ y_pred[j] = 1})
        fn == Count({j \in idx : y_true[j] = 1 /\ y_pred[j] = 0})
        beta2 == beta * beta
        precision == IF tp + fp = 0 THEN <<0, 1>> ELSE <<tp, tp + fp>>
        recall == IF tp + fn = 0 THEN <<0, 1>> ELSE <<tp, tp + fn>>
        denom == FAdd(FMul(<<beta2, 1>>, precision), recall)
    IN  IF denom[1] = 0 THEN <<0, 1>>
        ELSE Norm(FDiv(FMul(<<1 + beta2, 1>>, FMul(precision, recall)), denom))

\* scores of zip(to_multi_hot(pred), to_multi_hot(gt)): zip stops at the
\* shorter of the two.
RECURSIVE ZipScores(_, _, _, _)
ZipScores(ps, gs, i, scores) ==
    IF i > Min(Len(ps), Len(gs)) THEN scores
    ELSE ZipScores(ps, gs, i + 1, Append(scores, fbeta_score(gs[i], ps[i], 2)))

RECURSIVE FSum(_, _)
FSum(s, i) == IF i > Len(s) THEN <<0, 1>> ELSE FAdd(s[i], FSum(s, i + 1))

\* np.array(scores).mean(): nan for an empty array.
ArrayMean(scores) ==
    IF Len(scores) = 0 THEN [nan |-> TRUE, q |-> <<0, 1>>]
    ELSE [nan |-> FALSE, q |-> Norm(FDiv(FSum(scores, 1), <<Len(scores), 1>>))]

evaluate(pred, gt) ==
    LET p == to_multi_hot(pred, DefaultSize)
        g == to_multi_hot(gt, DefaultSize)
    IN  IF p.exc # "ok" THEN [exc |-> p.exc, nan |-> FALSE, q |-> <<0, 1>>]
        ELSE IF g.exc # "ok" THEN [exc |-> g.exc, nan |-> FALSE, q |-> <<0, 1>>]
        ELSE LET m == ArrayMean(ZipScores(p.rows, g.rows, 1, <<>>))
             IN  [exc |-> "ok", nan |-> m.nan, q |-> m.q]

(***************************************************************************)
(* models.py                                                               *)
(*                                                                         *)
(* A constructor yields a record whose exc field is "ok" or the exception  *)
(* the call raised; the other fields describe the object only when exc is  *)
(* "ok".  A forward call yields [exc, at, shape].                          *)
(***************************************************************************)
DefaultStride == 1
DefaultGroups == 32
DefaultReduction == 16

Abs(n) == IF n < 0 THEN -n ELSE n

\* The first exception of a sequence of outcomes, in program order.
RECURSIVE FirstExc(_)
FirstExc(es) ==
    IF es = <<>> THEN "ok"
    ELSE IF es[1] # "ok" THEN es[1]
    ELSE FirstExc(Tail(es))

\* nn.Conv2d(in_channels, out_channels, ..., groups): groups must be
\* positive and divide both channel counts.  A weight with no input channel
\* per group has fan-in 0: torch initialises it as a no-op, or (older
\* releases) divides by sqrt(0), depending on the installed release.
Conv2d(zi, in_channels, out_channels, groups) ==
    IF groups <= 0 THEN "ValueError"
    ELSE IF in_channels % groups # 0 \/ out_channels % groups # 0
        THEN "ValueError"
    ELSE IF in_channels \div groups = 0 /\ zi = "raise" THEN "ZeroDivisionError"
    ELSE "ok"

ConvBR2d(zi, in_channels, out_channels, groups, is_activation) ==
    [exc |-> Conv2d(zi, in_channels, out_channels, groups),
     in_channels |-> in_channels, out_channels |-> out_channels,
     groups |-> groups, is_activation |-> is_activation]

\* Mutation of CSEModule: a channel count the reduction does not divide is
\* rejected.
CSEModuleDivisible(zi, in_channels, reduction) ==
    IF reduction = 0
    THEN [kind |-> "CSEModule", exc |-> "ZeroDivisionError",
          in_channels |-> in_channels, reduction |-> reduction, hidden |-> 0]
    ELSE LET hidden == in_channels \div reduction
         IN  [kind |-> "CSEModule",
              exc |-> IF in_channels % reduction # 0 THEN "ValueError"
                      ELSE FirstExc(<<Conv2d(zi, in_channels, hidden, 1),
                                      Conv2d(zi, hidden, in_channels, 1)>>),
              in_channels |-> in_channels, reduction |-> reduction,
              hidden |-> hidden]

\* CSEModule.__init__: Conv2d(C, C // reduction, 1) and back.
CSEModule(zi, in_channels, reduction) ==
    IF reduction = 0
    THEN [kind |-> "CSEModule", exc |-> "ZeroDivisionError",
          in_channels |-> in_channels, reduction |-> reduction, hidden |-> 0]
    ELSE LET hidden == in_channels \div reduction
         IN  [kind |-> "CSEModule",
              exc |-> FirstExc(<<Conv2d(zi, in_channels, hidden, 1),
                                 Conv2d(zi, hidden, in_channels, 1)>>),
              in_channels |-> in_channels, reduction |-> reduction,
              hidden |-> hidden]

\* SENextBottleneck.__init__
SENextBottleneck(zi, in_channels, out_channels, stride, groups, reduction, pool, is_shortcut) ==
    IF groups = 0
    THEN [kind |-> "SENextBottleneck", exc |-> "ZeroDivisionError",
          in_channels |-> in_channels, out_channels |-> out_channels,
          stride |-> stride, groups |-> groups, reduction |-> reduction,
          pool |-> pool, is_shortcut |-> is_shortcut, mid_channels |-> 0,
          conv1 |-> None, conv2 |-> None, conv3 |-> None, se |-> None,
          shortcut |-> None]
    ELSE LET mid_channels == groups * ((out_channels \div 2) \div groups)
             conv1 == ConvBR2d(zi, in_channels, mid_channels, 1, TRUE)
             conv2 == ConvBR2d(zi, mid_channels, mid_channels, groups, TRUE)
             conv3 == ConvBR2d(zi, mid_channels, out_channels, 1, FALSE)
             se == CSEModule(zi, out_channels, reduction)
             shortcut == IF is_shortcut
                         THEN ConvBR2d(zi, in_channels, out_channels, 1, FALSE)
                         ELSE None
         IN  [kind |-> "SENextBottleneck",
              exc |-> FirstExc(<<conv1.exc, conv2.exc, conv3.exc, se.exc,
                                 IF is_shortcut THEN shortcut.exc ELSE "ok">>),
              in_channels |-> in_channels, out_channels |-> out_channels,
              stride |-> stride, groups |-> groups, reduction |-> reduction,
              pool |-> pool, is_shortcut |-> is_shortcut,
              mid_channels |-> mid_channels,
              conv1 |-> conv1, conv2 |-> conv2, conv3 |-> conv3, se |-> se,
              shortcut |-> shortcut]

\* The blocks of SEResNeXt.__init__'s comprehension, in order.
RECURSIVE Layers(_, _, _, _, _, _)
Layers(zi, width, diff, depth, i, acc) ==
    IF i >= depth THEN acc
    ELSE Layers(zi, width, diff, depth, i + 1,
                Append(acc,
                       SENextBottleneck(zi,
                                        width + (diff * i) \div depth,
                                        width + (diff * (i + 1)) \div depth,
                                        DefaultStride, width \div depth,
                                        DefaultReduction, "max", FALSE)))

RECURSIVE LayerExcs(_)
LayerExcs(layer) ==
    IF layer = <<>> THEN <<>>
    ELSE <<layer[1].exc>> \o LayerExcs(Tail(layer))

\* SEResNeXt.__init__
SEResNeXt(zi, in_channels, out_channels, depth, width) ==
    LET in_conv == ConvBR2d(zi, in_channels, width, 1, FALSE)
        diff == Abs(out_channels - width)
        layer == Layers(zi, width, diff, depth, 0, <<>>)
    IN  [kind |-> "SEResNeXt",
         exc |-> FirstExc(<<in_conv.exc>> \o LayerExcs(layer)),
         in_channels |-> in_channels, out_channels |-> out_channels,
         depth |-> depth, width |-> width,
         in_conv |-> in_conv, layer |-> layer]

(***************************************************************************)
(* Forward passes, on shapes.  zf: whether the installed torch runs a      *)
(* convolution whose weight has no elements.                               *)
(***************************************************************************)
NoShape == [b |-> 0, c |-> 0, h |-> 0, w |-> 0]

Ok(shape) == [exc |-> "ok", at |-> "", shape |-> shape]

Raise(exc, at) == [exc |-> exc, at |-> at, shape |-> NoShape]

\* nn.Conv2d.forward with a kernel that keeps the spatial size (1x1, or 3x3
\* with padding 1): the input must have the layer's in_channels.
Conv2dForward(in_channels, out_channels, x, zf) ==
    IF x.c # in_channels THEN Raise("RuntimeError", "conv")
    ELSE IF (in_channels = 0 \/ out_channels = 0) /\ ~zf
        THEN Raise("RuntimeError", "conv")
    ELSE Ok([x EXCEPT !.c = out_channels])

\* nn.BatchNorm2d.forward of a module in training mode (no code path calls
\* eval()): one value per channel is rejected.
BatchNorm2dForward(x) ==
    IF x.b * x.h * x.w = 1 THEN Raise("ValueError", "bn") ELSE Ok(x)

\* ConvBR2d.forward
ConvBR2dForward(m, r, zf) ==
    IF r.exc # "ok" THEN r
    ELSE LET c == Conv2dForward(m.in_channels, m.out_channels, r.shape, zf)
         IN  IF c.exc # "ok" THEN c ELSE BatchNorm2dForward(c.shape)

\* MaxPool2d / AvgPool2d / F.avg_pool2d with window and stride `stride`.
PoolForward(stride, r) ==
    IF r.exc # "ok" THEN r
    ELSE IF r.shape.h \div stride = 0 \/ r.shape.w \div stride = 0
        THEN Raise("RuntimeError", "pool")
    ELSE Ok([r.shape EXCEPT !.h = r.shape.h \div stride,
                            !.w = r.shape.w \div stride])

\* CSEModule.forward: x * se(x), se(x) of shape (b, C, 1, 1).
CSEModuleForward(m, r, zf) ==
    IF r.exc # "ok" THEN r
    ELSE IF r.shape.c # m.in_channels THEN Raise("RuntimeError", "se")
    ELSE IF m.hidden = 0 /\ ~zf THEN Raise("RuntimeError", "se")
    ELSE r

\* One dimension of torch's broadcasting: equal sizes, or one of them 1.
BroadcastDim(a, b) ==
    IF a = b THEN a ELSE IF a = 1 THEN b ELSE IF b = 1 THEN a ELSE -1

\* x + s
Add(x, s) ==
    LET c == BroadcastDim(x.c, s.c)
        h == BroadcastDim(x.h, s.h)
        w == BroadcastDim(x.w, s.w)
    IN  IF x.b # s.b \/ c = -1 \/ h = -1 \/ w = -1
        THEN Raise("RuntimeError", "add")
        ELSE Ok([b |-> x.b, c |-> c, h |-> h, w |-> w])

\* SENextBottleneck.forward
SENextBottleneckForward(m, r, zf) ==
    IF r.exc # "ok" THEN r
    ELSE LET x == r.shape
             s1 == ConvBR2dForward(m.conv1, Ok(x), zf)
             s2 == ConvBR2dForward(m.conv2, s1, zf)
             s3 == IF m.stride > 1 THEN PoolForward(m.stride, s2) ELSE s2
             s4 == ConvBR2dForward(m.conv3, s3, zf)
             s == CSEModuleForward(m.se, s4, zf)
             sc == IF m.is_shortcut
                   THEN ConvBR2dForward(m.shortcut,
                                        IF m.stride > 1
                                        THEN PoolForward(m.stride, Ok(x))
                                        ELSE Ok(x),
                                        zf)
                   ELSE Ok(x)
         IN  IF s.exc # "ok" THEN s
             ELSE IF sc.exc # "ok" THEN sc
             ELSE Add(sc.shape, s.shape)

\* nn.Sequential.forward over the blocks.
RECURSIVE SequentialForward(_, _, _, _)
SequentialForward(layer, i, r, zf) ==
    IF i > Len(layer) THEN r
    ELSE SequentialForward(layer, i + 1,
                           SENextBottleneckForward(layer[i], r, zf), zf)

\* SEResNeXt.forward
SEResNeXtForward(m, x, zf) ==
    SequentialForward(m.layer, 1, ConvBR2dForward(m.in_conv, Ok(x), zf), zf)

(***************************************************************************)
(* Inputs of the models.py calls.                                          *)
(***************************************************************************)
Widths == 1 .. MaxWidth
InChannels == 1 .. MaxIn
Depths == 0 .. MaxDepth
Reductions == {0, 1, 2, DefaultReduction}
Groups == {0, 1, 2, DefaultGroups}
StridePools == {<<1, "max">>, <<2, "max">>, <<2, "avg">>}
Shapes == [b : 1 .. MaxBatch, c : InChannels, h : 1 .. MaxSide, w : 1 .. MaxSide]

\* Each behaviour follows one module object: built once, then called once.
NewCSEModule ==
    /\ net = None
    /\ \E in_channels \in Widths, reduction \in Reductions :
           net' = CSEModule(torch_zero_init, in_channels, reduction)
    /\ UNCHANGED <<torch_zero_init, fwd, records, call>>

NewSENextBottleneck ==
    /\ net = None
    /\ \E in_channels \in InChannels, out_channels \in Widths,
          sp \in StridePools, groups \in Groups, reduction \in Reductions,
          is_shortcut \in BOOLEAN :
           net' = SENextBottleneck(torch_zero_init, in_channels, out_channels,
                                   sp[1], groups, reduction, sp[2], is_shortcut)
    /\ UNCHANGED <<torch_zero_init, fwd, records, call>>

NewSEResNeXt ==
    /\ net = None
    /\ \E in_channels \in InChannels, out_channels \in Widths,
          depth \in Depths, width \in Widths :
           net' = SEResNeXt(torch_zero_init, in_channels, out_channels, depth,
                            width)
    /\ UNCHANGED <<torch_zero_init, fwd, records, call>>

CallSENextBottleneck ==
    /\ net.kind = "SENextBottleneck"
    /\ net.exc = "ok"
    /\ fwd = None
    /\ \E x \in Shapes, zf \in BOOLEAN :
           LET r == SENextBottleneckForward(net, Ok(x), zf)
           IN  fwd' = [x |-> x, exc |-> r.exc, at |-> r.at, shape |-> r.shape]
    /\ UNCHANGED <<torch_zero_init, net, records, call>>

CallSEResNeXt ==
    /\ net.kind = "SEResNeXt"
    /\ net.exc = "ok"
    /\ fwd = None
    /\ \E x \in Shapes, zf \in BOOLEAN :
           LET r == SEResNeXtForward(net, x, zf)
           IN  fwd' = [x |-> x, exc |-> r.exc, at |-> r.at, shape |-> r.shape]
    /\ UNCHANGED <<torch_zero_init, net, records, call>>

Init ==
    /\ torch_zero_init \in {"noop", "raise"}
    /\ net = None
    /\ fwd = None
    /\ records = <<>>
    /\ call = None

NextNew == NewCSEModule \/ NewSENextBottleneck \/ NewSEResNeXt

\* Construction only.
SpecNew == Init /\ [][NextNew]_vars

Next ==
    \/ NewCSEModule
    \/ NewSENextBottleneck
    \/ NewSEResNeXt
    \/ CallSENextBottleneck
    \/ CallSEResNeXt

\* Construction followed by a forward call.
Spec == Init /\ [][Next]_vars

(***************************************************************************)
(* Inputs of the preprocess.py calls.                                      *)
(***************************************************************************)
Sizes == 0 .. MaxSize

\* Label ids of the records handed to to_multi_hot(_, size), size <= MaxSize:
\* 0 .. size-1 are valid, -1 wraps to size-1 (when size > 0), and
\* size .. MaxSize and -(MaxSize+1) are out of range on either side.
AllIds == {-(MaxSize + 1)} \cup (-1 .. MaxSize)

\* Valid indices of the label space evaluate encodes into.
ValidIds == 0 .. DefaultSize - 1

AnnotationsOver(ids) ==
    UNION {[1 .. n -> [label_ids : SUBSET ids]] : n \in 0 .. MaxAnnos}

\* Each behaviour follows one call from its arguments to its outcome.
CallToMultiHot ==
    /\ call = None
    /\ \E size \in Sizes :
           LET r == to_multi_hot(records, size)
           IN  call' = [fn |-> "to_multi_hot", size |-> size,
                        exc |-> r.exc, rows |-> r.rows]
    /\ UNCHANGED <<torch_zero_init, net, fwd, records>>

\* evaluate(pred, records): the loaded records are the ground truth.
CallEvaluate ==
    /\ call = None
    /\ \E pred \in AnnotationsOver(ValidIds) :
           LET r == evaluate(pred, records)
           IN  call' = [fn |-> "evaluate", pred |-> pred,
                        exc |-> r.exc, nan |-> r.nan, q |-> r.q]
    /\ UNCHANGED <<torch_zero_init, net, fwd, records>>

InitEncode ==
    /\ torch_zero_init = "noop"
    /\ net = None
    /\ fwd = None
    /\ records \in AnnotationsOver(AllIds)
    /\ call = None

NextEncode == CallToMultiHot

SpecEncode == InitEncode /\ [][NextEncode]_vars

\* The records evaluate is given come from the loaders: their ids are valid.
InitEval ==
    /\ torch_zero_init = "noop"
    /\ net = None
    /\ fwd = None
    /\ records \in AnnotationsOver(ValidIds)
    /\ call = None

NextEval == CallEvaluate

SpecEval == InitEval /\ [][NextEval]_vars

(***************************************************************************)
(* Properties.                                                             *)
(***************************************************************************)
IsBackbone == net.kind = "SEResNeXt"
IsBlock == net.kind = "SENextBottleneck"
IsCSE == net.kind = "CSEModule"
Built == net # None /\ net.exc = "ok"

\* A block whose main path and attention bottleneck both have channels.
NonDegenerate(m) == m.mid_channels > 0 /\ m.se.hidden > 0

\* C1: the channel schedule a built backbone of depth >= 1 holds starts at
\* start_width, is continuous from block to block, and ends at output_width.
\* Stated for backbones whose blocks are all non-degenerate.
Cex_C1 ==
    (/\ IsBackbone /\ Built /\ net.depth >= 1
     /\ \A i \in 1 .. net.depth : NonDegenerate(net.layer[i])) =>
        /\ net.layer[1].in_channels = net.width
        /\ \A i \in 1 .. net.depth - 1 :
               net.layer[i].out_channels = net.layer[i + 1].in_channels
        /\ net.layer[net.depth].out_channels = net.out_channels

\* C2: the forward pass of a built backbone of depth >= 1 on an input of
\* shape (b, in_channels, h, w) returns shape (b, output_width, h, w).  Stated
\* for the most favourable case: every block non-degenerate and more than one
\* value per channel in the input.
Cex_C2 ==
    (/\ IsBackbone /\ Built /\ net.depth >= 1
     /\ \A i \in 1 .. net.depth : NonDegenerate(net.layer[i])
     /\ fwd # None
     /\ fwd.x.c = net.in_channels
     /\ fwd.x.b * fwd.x.h * fwd.x.w > 1) =>
        /\ fwd.exc = "ok"
        /\ fwd.shape = [fwd.x EXCEPT !.c = net.out_channels]

\* C3: constructing the backbone with depth = 0 raises; no backbone with an
\* empty block stack is produced.
Cex_C3 == (IsBackbone /\ net.depth = 0) => ~Built

ValidRecord(ano, size) == ano.label_ids \subseteq 0 .. size - 1

OnePositions(row) == {j \in DOMAIN row : row[j] = 1}

\* C4: to_multi_hot returns when every id is in [0, size); when it returns
\* there is one row of length size per annotation, and the row of an
\* annotation whose ids are all in [0, size) has 1 exactly at its label ids,
\* whatever the other annotations hold.
Thm_C4 ==
    (call # None /\ call.fn = "to_multi_hot") =>
        /\ (\A i \in 1 .. Len(records) : ValidRecord(records[i], call.size))
               => call.exc = "ok"
        /\ call.exc = "ok" =>
               /\ Len(call.rows) = Len(records)
               /\ \A i \in 1 .. Len(records) :
                      /\ DOMAIN call.rows[i] = 0 .. call.size - 1
                      /\ ValidRecord(records[i], call.size) =>
                             /\ \A j \in 0 .. call.size - 1 :
                                    call.rows[i][j] = 1
                                        <=> j \in records[i].label_ids
                             /\ OnePositions(call.rows[i])
                                    = records[i].label_ids

\* C4's case: a returned batch of two, a valid non-empty annotation next to
\* one whose id wrapped.
Wit_C4 ==
    /\ call # None /\ call.fn = "to_multi_hot" /\ call.exc = "ok"
    /\ Len(records) = 2
    /\ records[1].label_ids # {}
    /\ ValidRecord(records[1], call.size)
    /\ -1 \in records[2].label_ids
    /\ OnePositions(call.rows[1]) = records[1].label_ids
    /\ OnePositions(call.rows[2]) # OnePositions(call.rows[1])

\* C5: to_multi_hot raises IndexError whenever some label id is >= size or
\* negative.
Cex_C5 ==
    (/\ call # None /\ call.fn = "to_multi_hot"
     /\ \E i \in 1 .. Len(records) :
            \E l \in records[i].label_ids : l >= call.size \/ l < 0) =>
        call.exc = "IndexError"

\* C6: evaluate raises whenever the two sequences differ in length; no score
\* is computed from a prefix of the longer one.  Stated for two non-empty
\* sequences.
Cex_C6 ==
    (/\ call # None /\ call.fn = "evaluate"
     /\ Len(call.pred) > 0 /\ Len(records) > 0
     /\ Len(call.pred) # Len(records)) =>
        call.exc # "ok"

\* 5*TP / (5*TP + 4*FN + FP) between two label sets, 0 on a zero denominator.
PairScore(P, G) ==
    LET tp == Cardinality(P \cap G)
        fn == Cardinality(G \ P)
        fp == Cardinality(P \ G)
        d == 5 * tp + 4 * fn + fp
    IN  IF d = 0 THEN <<0, 1>> ELSE <<5 * tp, d>>

RECURSIVE PairScoreSum(_, _, _)
PairScoreSum(pred, gt, i) ==
    IF i > Len(pred) THEN <<0, 1>>
    ELSE FAdd(PairScore(pred[i].label_ids, gt[i].label_ids),
              PairScoreSum(pred, gt, i + 1))

\* C7: on equal-length non-empty sequences evaluate returns the mean of the
\* per-pair scores 5*TP / (5*TP + 4*FN + FP); it lies in [0, 1], is 1 for
\* evaluate(X, X) when every record has a label, and 0 when every predicted
\* set is disjoint from its ground truth.
Thm_C7 ==
    (/\ call # None /\ call.fn = "evaluate"
     /\ Len(call.pred) = Len(records)
     /\ Len(records) > 0) =>
        LET n == Len(records)
        IN  /\ call.exc = "ok"
            /\ ~call.nan
            /\ FEq(call.q, FDiv(PairScoreSum(call.pred, records, 1), <<n, 1>>))
            /\ FLe(<<0, 1>>, call.q) /\ FLe(call.q, <<1, 1>>)
            /\ (/\ call.pred = records
                /\ \A i \in 1 .. n : records[i].label_ids # {})
                   => call.q = <<1, 1>>
            /\ (\A i \in 1 .. n :
                    call.pred[i].label_ids \cap records[i].label_ids = {})
                   => call.q = <<0, 1>>

\* C7's case: two pairs, one missing a label and one with an extra label, and
\* a mean strictly between 0 and 1.
Wit_C7 ==
    /\ call # None /\ call.fn = "evaluate" /\ call.exc = "ok"
    /\ Len(call.pred) = 2 /\ Len(records) = 2
    /\ call.pred[1].label_ids \cap records[1].label_ids # {}
    /\ records[1].label_ids \ call.pred[1].label_ids # {}
    /\ call.pred[2].label_ids \ records[2].label_ids # {}
    /\ call.q[1] > 0 /\ call.q[1] < call.q[2]

\* The blocks a state holds: the block itself, or a backbone's stack.
BlocksOf(m) ==
    IF m.kind = "SENextBottleneck" THEN {m}
    ELSE IF m.kind = "SEResNeXt" THEN {m.layer[i] : i \in 1 .. Len(m.layer)}
    ELSE {}

\* C8: constructing a block with out_channels // 2 < groups raises, so every
\* built block, the backbone's included, has mid_channels a positive multiple
\* of groups.
Cex_C8 ==
    /\ (IsBlock /\ net.out_channels \div 2 < net.groups) => ~Built
    /\ Built =>
           \A m \in BlocksOf(net) :
               m.mid_channels > 0 /\ m.mid_channels % m.groups = 0

\* C9: a non-degenerate block without shortcut returns a tensor only when
\* in_channels = out_channels and stride = 1 (and then of the input's shape);
\* in every other case the call raises.
Cex_C9 ==
    (/\ IsBlock /\ Built /\ NonDegenerate(net) /\ ~net.is_shortcut
     /\ fwd # None /\ fwd.exc = "ok") =>
        /\ net.in_channels = net.out_channels
        /\ net.stride = 1
        /\ fwd.shape = fwd.x

\* C10, as stated: constructing CSEModule(C, reduction) with C not divisible
\* by reduction raises, so a block whose out_channels is not a multiple of
\* its reduction (16 by default) cannot be built.  Stated for C >= reduction.
Cex_C10 ==
    /\ (/\ IsCSE /\ net.reduction >= 1 /\ net.in_channels >= net.reduction
        /\ net.in_channels % net.reduction # 0) => ~Built
    /\ (/\ IsBlock /\ net.reduction >= 1 /\ net.out_channels >= net.reduction
        /\ net.out_channels % net.reduction # 0) => ~Built

\* C10, amended: CSEModule(C, reduction) with C >= reduction >= 1 is built
\* whether or not reduction divides C, with hidden width C // reduction; a
\* block with groups >= 1, out_channels // 2 >= groups and
\* out_channels >= reduction >= 1 is built, its attention module having
\* hidden width out_channels // reduction.
Thm_C10 ==
    /\ (IsCSE /\ net.reduction >= 1 /\ net.in_channels >= net.reduction) =>
           /\ Built
           /\ net.hidden = net.in_channels \div net.reduction
           /\ net.hidden >= 1
    /\ (/\ IsBlock /\ net.reduction >= 1 /\ net.out_channels >= net.reduction
        /\ net.groups >= 1 /\ net.out_channels \div 2 >= net.groups) =>
           /\ Built
           /\ net.se.exc = "ok"
           /\ net.se.hidden = net.out_channels \div net.reduction
           /\ net.se.hidden >= 1

\* C10's case: a built block with the default reduction whose out_channels is
\* not a multiple of 16.
Wit_C10 ==
    /\ IsBlock /\ Built
    /\ net.reduction = DefaultReduction
    /\ net.out_channels % DefaultReduction # 0
    /\ net.se.hidden = 1
    /\ net.mid_channels > 0

====
